---- MODULE Spec2Model ----
(***************************************************************************)
(* Data windowing and baseline predictors of "Chapter 13 - Data windowing" *)
(* (class DataWindow, class Baseline), as a state machine.                 *)
(*                                                                         *)
(* Conventions.  Indices, offsets and slice bounds are Python's (0-based); *)
(* TLA+ sequences are 1-based, so element i of a Python sequence s is      *)
(* s[i + 1].  A rank-3 tensor [sample, row, column] is a sequence of       *)
(* samples, each a sequence of rows, each a sequence of column values.     *)
(* Python's None is modelled by a record with a flag (set / kind / open),  *)
(* never by a value of another type.                                       *)
(***************************************************************************)
EXTENDS Integers, Sequences, FiniteSets, TLC

VARIABLES
    train_df,   \* the module-level training table (rows of column values)
    val_df,     \* the module-level validation table
    test_df,    \* the module-level test table
    win,        \* the constructed DataWindow instances, by name
    ret,        \* what the most recent operation did and returned
    sameSeed    \* history: the last two operations built a dataset of the
                \* same instance and table with the same shuffle seed

vars == <<train_df, val_df, test_df, win, ret, sameSeed>>

(***************************************************************************)
(* Bounds of the model                                                     *)
(***************************************************************************)
MaxInput == 2
MaxLabel == 2
MaxShift == 2
MaxLen == 3
MaxSeed == 1
ValLen == 3
TestLen == 2
WideLen == 65
MultiLen == 49

(***************************************************************************)
(* Program constants                                                       *)
(***************************************************************************)
BatchSize == 32
MaxSubplots == 3
Horizon == 24

Min(a, b) == IF a < b THEN a ELSE b
Max(a, b) == IF a > b THEN a ELSE b
Range(s) == {s[i] : i \in 1..Len(s)}

(***************************************************************************)
(* Tables.  train_df.columns, in the order that makes                      *)
(* Baseline(label_index=[0, 2]) the columns ['temp', 'traffic_volume'].    *)
(* Every cell of every table holds a different number, so that equal       *)
(* values mean the same cell.                                              *)
(***************************************************************************)
Columns == <<"temp", "clouds_all", "traffic_volume">>

Table(base, n) ==
    [r \in 1..n |-> [c \in 1..Len(Columns) |-> base + (r - 1) * Len(Columns) + c]]

(***************************************************************************)
(* Python and NumPy helpers                                                *)
(***************************************************************************)
\* slice(start, stop) and slice(start, None)
Slice(start, stop) == [start |-> start, stop |-> stop, open |-> FALSE]
SliceFrom(start) == [start |-> start, stop |-> 0, open |-> TRUE]

\* s[sl] for a slice of step 1: negative bounds count from the end, and
\* bounds outside the sequence are clamped.
PySlice(s, sl) ==
    LET n == Len(s)
        norm(i) == IF i < 0 THEN Max(0, n + i) ELSE Min(i, n)
        a == norm(sl.start)
        b == IF sl.open THEN n ELSE norm(sl.stop)
    IN  IF a < b THEN SubSeq(s, a + 1, b) ELSE <<>>

\* np.arange(n)
Arange(n) == [i \in 1..Max(n, 0) |-> i - 1]

\* {name: i for i, name in enumerate(names)}: a later duplicate wins.
EnumerateDict(names) ==
    [name \in Range(names) |->
        (CHOOSE i \in 1..Len(names) :
            /\ names[i] = name
            /\ \A j \in (i + 1)..Len(names) : names[j] # name) - 1]

\* A number as np.float32 holds it: integers up to 2^24 exactly, those up
\* to 2^25 rounded to the nearest even integer (ties to the even mantissa).
Float32(x) ==
    LET a == IF x < 0 THEN 0 - x ELSE x
        sgn == IF x < 0 THEN 0 - 1 ELSE 1
    IN  IF a <= 16777216 \/ a % 2 = 0 THEN x
        ELSE IF (a + 1) % 4 = 0 THEN sgn * (a + 1) ELSE sgn * (a - 1)

\* np.array(data, dtype=np.float32)
Float32Array(data) ==
    [r \in 1..Len(data) |-> [c \in 1..Len(data[r]) |-> Float32(data[r][c])]]

\* t[:, sl, :]
SliceRows(t, sl) == [n \in 1..Len(t) |-> PySlice(t[n], sl)]

\* t[:, :, i] of a rank-3 tensor, i within the columns: a rank-2 tensor
TakeColumn(t, i) ==
    [n \in 1..Len(t) |-> [r \in 1..Len(t[n]) |-> t[n][r][i + 1]]]

\* t[:, :, tf.newaxis] of a rank-2 tensor
NewAxis(t) == [n \in 1..Len(t) |-> [r \in 1..Len(t[n]) |-> <<t[n][r]>>]]

\* tf.stack(ts, axis=-1) of rank-2 tensors of one shape
StackLast(ts) ==
    [n \in 1..Len(ts[1]) |->
        [r \in 1..Len(ts[1][n]) |-> [k \in 1..Len(ts) |-> ts[k][n][r]]]]

RECURSIVE ConcatAll(_)
ConcatAll(rows) ==
    IF rows = <<>> THEN <<>> ELSE Head(rows) \o ConcatAll(Tail(rows))

\* tf.concat(ts, axis=-1) of rank-3 tensors agreeing on the first two axes
ConcatLast(ts) ==
    [n \in 1..Len(ts[1]) |->
        [r \in 1..Len(ts[1][n]) |->
            ConcatAll([k \in 1..Len(ts) |-> ts[k][n][r]])]]

(***************************************************************************)
(* DataWindow.__init__                                                     *)
(***************************************************************************)
None == [set |-> FALSE, names |-> <<>>]
Some(names) == [set |-> TRUE, names |-> names]

NoBatch == [set |-> FALSE, inputs |-> <<>>, labels |-> <<>>]
SomeBatch(b) == [set |-> TRUE, inputs |-> b.inputs, labels |-> b.labels]

\* Mutant of TotalWindowSize: the shift counted from the last input row.
TotalWindowSizeOffByOne(input_width, shift) == input_width + shift - 1

\* self.total_window_size = input_width + shift
TotalWindowSize(input_width, shift) == input_width + shift

\* Mutant of InputSlice: slice(1, input_width + 1), the inputs one row late.
InputSliceFromOne(input_width) == Slice(1, input_width + 1)

\* self.input_slice = slice(0, input_width)
InputSlice(input_width) == Slice(0, input_width)

\* Mutant of LabelStart: the labels start one row late.
LabelStartOffByOne(total_window_size, label_width) ==
    total_window_size - label_width + 1

\* self.label_start = self.total_window_size - self.label_width
LabelStart(total_window_size, label_width) == total_window_size - label_width

\* Mutant of LabelsSlice: slice(label_start, -1), which drops the last row.
LabelsSliceDropLast(label_start) == Slice(label_start, 0 - 1)

\* self.labels_slice = slice(self.label_start, None)
LabelsSlice(label_start) == SliceFrom(label_start)

DataWindow(input_width, label_width, shift, label_columns) ==
    LET total_window_size == TotalWindowSize(input_width, shift)
        input_slice == InputSlice(input_width)
        label_start == LabelStart(total_window_size, label_width)
        labels_slice == LabelsSlice(label_start)
    IN  [label_columns |-> label_columns,
         label_columns_indices |->
            IF label_columns.set THEN EnumerateDict(label_columns.names)
            ELSE <<>>,
         column_indices |-> EnumerateDict(Columns),
         input_width |-> input_width,
         label_width |-> label_width,
         shift |-> shift,
         total_window_size |-> total_window_size,
         input_slice |-> input_slice,
         input_indices |-> PySlice(Arange(total_window_size), input_slice),
         label_start |-> label_start,
         labels_slice |-> labels_slice,
         label_indices |-> PySlice(Arange(total_window_size), labels_slice),
         _sample_batch |-> NoBatch]

(***************************************************************************)
(* DataWindow.split_to_inputs_labels.  eager: the call is on a concrete    *)
(* tensor, whose shape set_shape checks; under Dataset.map the function is *)
(* traced on a tensor of unknown row count and set_shape only records the  *)
(* declared shape.                                                         *)
(***************************************************************************)
\* Mutant of LabelColumnIndex: the position in label_columns, not in the table.
LabelColumnIndexInList(self, name) == self.label_columns_indices[name]

\* self.column_indices[name], the column a label name selects
LabelColumnIndex(self, name) == self.column_indices[name]

SplitToInputsLabels(self, features, eager) ==
    LET inputs == SliceRows(features, self.input_slice)
        sliced == SliceRows(features, self.labels_slice)
        names == self.label_columns.names
        known == \A k \in 1..Len(names) : names[k] \in DOMAIN self.column_indices
        labels ==
            IF self.label_columns.set
            THEN StackLast([k \in 1..Len(names) |->
                    TakeColumn(sliced, LabelColumnIndex(self, names[k]))])
            ELSE sliced
        fits ==
            /\ \A n \in 1..Len(inputs) : Len(inputs[n]) = self.input_width
            /\ \A n \in 1..Len(sliced) : Len(sliced[n]) = self.label_width
        failed(e) == [outcome |-> e, inputs |-> <<>>, labels |-> <<>>]
    IN  IF self.label_columns.set /\ ~known THEN failed("KeyError")
        ELSE IF self.label_columns.set /\ names = <<>> THEN failed("ValueError")
        ELSE IF self.input_width < 0 \/ self.label_width < 0
             THEN failed("ValueError")
        ELSE IF eager /\ ~fits THEN failed("ValueError")
        ELSE [outcome |-> "ok", inputs |-> inputs, labels |-> labels]

(***************************************************************************)
(* tf.keras.preprocessing.timeseries_dataset_from_array, as make_dataset   *)
(* calls it (targets=None, sampling_rate=1, start_index=0, end_index=None, *)
(* seed=None).  The library draws the seed from NumPy's global generator   *)
(* (np.random.randint(1e6)); here it is the parameter seed.  Both shuffles *)
(* are deterministic in the seed and the length shuffled.                  *)
(***************************************************************************)
\* Mutant of RngShuffle: the seed ignored, the order drawn from a generator
\* whose state advances with every dataset built.
RngShuffleUnseeded(seed, positions) ==
    LET n == Len(positions)
        k == IF n = 0 \/ ~ret.built THEN 0 ELSE 1 % n
    IN  [i \in 1..n |-> positions[((i - 1 + k) % n) + 1]]

\* np.random.RandomState(seed).shuffle(positions)
RngShuffle(seed, positions) ==
    LET n == Len(positions)
        k == IF n = 0 THEN 0 ELSE (seed \div 2) % n
    IN  [i \in 1..n |-> positions[((i - 1 + k) % n) + 1]]

\* dataset.shuffle(buffer_size=batch_size * 8, seed=seed), first pass
DatasetShuffle(seed, elements) ==
    LET n == Len(elements)
    IN  IF seed % 2 = 0 THEN elements
        ELSE [i \in 1..n |-> elements[n + 1 - i]]

\* Mutant of Batch: drop_remainder=True, which drops a short last batch.
BatchDropRemainder(elements, batch_size) ==
    [b \in 1..(Len(elements) \div batch_size) |->
        SubSeq(elements, (b - 1) * batch_size + 1, b * batch_size)]

\* dataset.batch(batch_size)
Batch(elements, batch_size) ==
    LET n == Len(elements)
        count == (n + batch_size - 1) \div batch_size
    IN  [b \in 1..count |->
            SubSeq(elements, (b - 1) * batch_size + 1, Min(b * batch_size, n))]

\* Mutant of GatherSequence: the rows of a window in reverse order.
GatherSequenceReversed(data, position, sequence_length) ==
    [k \in 1..Max(sequence_length, 0) |->
        data[position + Max(sequence_length, 0) + 1 - k]]

\* tf.gather(data, range(position, position + sequence_length))
GatherSequence(data, position, sequence_length) ==
    [k \in 1..Max(sequence_length, 0) |-> data[position + k]]

TimeseriesDatasetFromArray(data, sequence_length, sequence_stride, batch_size, seed) ==
    LET num_seqs == Len(data) - (sequence_length - 1)
        start_positions ==
            [i \in 1..((Max(num_seqs, 0) + sequence_stride - 1) \div sequence_stride)
                |-> (i - 1) * sequence_stride]
        shuffled == RngShuffle(seed, start_positions)
        sequences ==
            [i \in 1..Len(shuffled) |->
                GatherSequence(data, shuffled[i], sequence_length)]
    IN  Batch(DatasetShuffle(seed, sequences), batch_size)

(***************************************************************************)
(* DataWindow.make_dataset                                                 *)
(***************************************************************************)
MakeDataset(self, data, seed) ==
    LET ds == TimeseriesDatasetFromArray(Float32Array(data),
                  self.total_window_size, 1, BatchSize, seed)
        traced == SplitToInputsLabels(self, <<>>, FALSE)
        split(b) == SplitToInputsLabels(self, b, FALSE)
    IN  IF traced.outcome # "ok" THEN [outcome |-> traced.outcome, ds |-> <<>>]
        ELSE [outcome |-> "ok",
              ds |-> [b \in 1..Len(ds) |->
                        LET got == split(ds[b])
                        IN  [inputs |-> got.inputs, labels |-> got.labels]]]

(***************************************************************************)
(* DataWindow.train, .val, .test: each access builds a new dataset.        *)
(***************************************************************************)
TableOf(src) ==
    CASE src = "train" -> train_df
      [] src = "val" -> val_df
      [] OTHER -> test_df

(***************************************************************************)
(* DataWindow.sample_batch: the cached batch, or the first batch of a new  *)
(* training dataset, which next(iter(...)) draws and the property caches.  *)
(* An empty dataset ends in StopIteration before the cache is assigned.    *)
(***************************************************************************)
\* Mutant of CachedBatch: the attribute read under another name, never found.
CachedBatchNeverFound(self) == NoBatch

\* getattr(self, '_sample_batch', None)
CachedBatch(self) == self._sample_batch

SampleBatchGet(self, seed) ==
    LET cached == CachedBatch(self)
        made == MakeDataset(self, train_df, seed)
        failed(e) == [outcome |-> e, result |-> NoBatch, self |-> self,
                      built |-> TRUE, ds |-> made.ds]
    IN  IF cached.set
        THEN [outcome |-> "ok", result |-> cached, self |-> self,
              built |-> FALSE, ds |-> <<>>]
        ELSE IF made.outcome # "ok" THEN failed(made.outcome)
        ELSE IF made.ds = <<>> THEN failed("StopIteration")
        ELSE [outcome |-> "ok",
              result |-> SomeBatch(Head(made.ds)),
              self |-> [self EXCEPT !._sample_batch = SomeBatch(Head(made.ds))],
              built |-> TRUE,
              ds |-> made.ds]

(***************************************************************************)
(* Baseline.call                                                           *)
(***************************************************************************)
NoIndex == [kind |-> "None", index |-> 0, list |-> <<>>]
IntIndex(i) == [kind |-> "int", index |-> i, list |-> <<>>]
ListIndex(l) == [kind |-> "list", index |-> 0, list |-> l]

NoModel == [kind |-> "None", label_index |-> NoIndex]
Baseline(label_index) == [kind |-> "Baseline", label_index |-> label_index]

\* Whether i indexes one of ncols columns (a negative i counts from the end).
ColumnInRange(i, ncols) == 0 - ncols <= i /\ i < ncols

\* Mutant of ColumnAt: the index read as 1-based.
ColumnAtOneBased(t, i, ncols) ==
    TakeColumn(t, IF i < 0 THEN i + ncols ELSE Max(i - 1, 0))

\* t[:, :, i] with Python's reading of a negative index; ncols is the
\* number of columns of t.
ColumnAt(t, i, ncols) == TakeColumn(t, IF i < 0 THEN i + ncols ELSE i)

BaselineCall(label_index, inputs, ncols) ==
    LET list == label_index.list
        failed(e) == [outcome |-> e, value |-> <<>>, ncols |-> 0]
    IN  CASE label_index.kind = "None" ->
               [outcome |-> "ok", value |-> inputs, ncols |-> ncols]
          [] label_index.kind = "list" ->
               IF list = <<>> THEN failed("ValueError")
               ELSE IF \E k \in 1..Len(list) : ~ColumnInRange(list[k], ncols)
               THEN failed("IndexError")
               ELSE [outcome |-> "ok",
                     value |-> ConcatLast([k \in 1..Len(list) |->
                                  NewAxis(ColumnAt(inputs, list[k], ncols))]),
                     ncols |-> Len(list)]
          [] OTHER ->
               IF ~ColumnInRange(label_index.index, ncols)
               THEN failed("IndexError")
               ELSE [outcome |-> "ok",
                     value |-> NewAxis(ColumnAt(inputs, label_index.index, ncols)),
                     ncols |-> 1]

\* model(inputs) for the models of the notebook
ModelCall(model, inputs, ncols) ==
    BaselineCall(model.label_index, inputs, ncols)

(***************************************************************************)
(* MultiStepLastBaseline.call and RepeatBaseline.call.  label_index is     *)
(* None or an int, and is used as the start of a slice of the columns.     *)
(***************************************************************************)
MultiStepLastBaseline(label_index) ==
    [kind |-> "MultiStepLastBaseline", label_index |-> label_index]

RepeatBaseline(label_index) ==
    [kind |-> "RepeatBaseline", label_index |-> label_index]

\* t[:, :, sl]
SliceColumns(t, sl) ==
    [n \in 1..Len(t) |-> [r \in 1..Len(t[n]) |-> PySlice(t[n][r], sl)]]

\* tf.tile(t, [1, reps, 1]): the rows of every sample, reps times over
TileRows(t, reps) ==
    [n \in 1..Len(t) |->
        [r \in 1..(Len(t[n]) * reps) |-> t[n][((r - 1) % Len(t[n])) + 1]]]

\* Mutant of LastRow: inputs[:, :1, :], the first row.
FirstRow(inputs) == SliceRows(inputs, Slice(0, 1))

\* inputs[:, -1:, :]
LastRow(inputs) == SliceRows(inputs, SliceFrom(0 - 1))

\* The slice of columns label_index: stands for (None: is the full slice).
ColumnsFrom(label_index) ==
    IF label_index.kind = "None" THEN SliceFrom(0)
    ELSE SliceFrom(label_index.index)

MultiStepLastBaselineCall(label_index, inputs) ==
    IF label_index.kind = "None"
    THEN [outcome |-> "ok", value |-> TileRows(LastRow(inputs), Horizon)]
    ELSE [outcome |-> "ok",
          value |-> TileRows(SliceColumns(LastRow(inputs),
                                          ColumnsFrom(label_index)), Horizon)]

RepeatBaselineCall(label_index, inputs) ==
    [outcome |-> "ok", value |-> SliceColumns(inputs, ColumnsFrom(label_index))]

(***************************************************************************)
(* DataWindow.plot, after its read of sample_batch: the series drawn in    *)
(* each subplot.                                                           *)
(***************************************************************************)
NoSeries == [set |-> FALSE, values |-> <<>>]
Series(t, n, i) == [set |-> TRUE, values |-> [r \in 1..Len(t[n]) |-> t[n][r][i + 1]]]

PlotFigure(self, batch, model, plot_col) ==
    LET inputs == batch.inputs
        labels == batch.labels
        plot_col_index == self.column_indices[plot_col]
        max_n == Min(MaxSubplots, Len(inputs))
        truthy == self.label_columns.set /\ self.label_columns.names # <<>>
        found ==
            IF truthy THEN plot_col \in DOMAIN self.label_columns_indices
            ELSE TRUE
        label_col_index ==
            IF truthy THEN self.label_columns_indices[plot_col]
            ELSE plot_col_index
        predictions == ModelCall(model, inputs, Len(Columns))
        failed(e) == [outcome |-> e, figure |-> <<>>]
    IN  IF plot_col \notin DOMAIN self.column_indices THEN failed("KeyError")
        ELSE IF max_n > 0 /\ found /\ model.kind # "None"
                /\ predictions.outcome # "ok"
        THEN failed(predictions.outcome)
        ELSE IF max_n > 0 /\ found /\ model.kind # "None"
                /\ ~ColumnInRange(label_col_index, predictions.ncols)
        THEN failed("IndexError")
        ELSE [outcome |-> "ok",
              figure |->
                [n \in 1..max_n |->
                    [inputs |-> Series(inputs, n, plot_col_index),
                     labels |->
                        IF found THEN Series(labels, n, label_col_index)
                        ELSE NoSeries,
                     predictions |->
                        IF found /\ model.kind # "None"
                        THEN Series(predictions.value, n, label_col_index)
                        ELSE NoSeries]]]

(***************************************************************************)
(* The state after the notebook's setup cells                              *)
(***************************************************************************)
Seeds == 0..MaxSeed

\* The seeds a read of sample_batch may draw: none is drawn (the model
\* passes 0, unused) when the batch is cached and no dataset is built.
SeedsDrawn(self) == IF CachedBatch(self).set THEN {0} ELSE Seeds

LabelColumnChoices ==
    {None, Some(<<"traffic_volume">>), Some(<<"traffic_volume", "temp">>),
     Some(<<"humidity">>)}

PlotColumns == {"traffic_volume", "temp", "humidity"}

LabelIndexChoices == {NoIndex, IntIndex(0), IntIndex(2), ListIndex(<<2, 0>>)}

Models == {NoModel, Baseline(IntIndex(2))}

MultiIndexChoices == {NoIndex, IntIndex(0), IntIndex(2)}

NoPrediction == [set |-> FALSE, value |-> <<>>]

NoRet ==
    [op |-> "init", inst |-> "", outcome |-> "ok", built |-> FALSE,
     src |-> "", seed |-> 0 - 1, ds |-> <<>>, batch |-> NoBatch,
     offset |-> 0 - 1, model |-> NoModel, plot_col |-> "",
     pred |-> NoPrediction, figure |-> <<>>]

Init ==
    /\ \E n \in 2..MaxLen : train_df = Table(0, n)
    /\ val_df = Table(1000, ValLen)
    /\ test_df = Table(2000, TestLen)
    /\ \E input_width \in 0..MaxInput, label_width \in 0..MaxLabel,
          shift \in 0..MaxShift, label_columns \in LabelColumnChoices :
          win = [w \in {"w"} |->
                    DataWindow(input_width, label_width, shift, label_columns)]
    /\ ret = NoRet
    /\ sameSeed = FALSE

(***************************************************************************)
(* Operations.  Each result is computed once and bound (\E x \in {e}).     *)
(***************************************************************************)
Access(w, src, seed) ==
    \E made \in {MakeDataset(win[w], TableOf(src), seed)} :
        /\ ret' = [NoRet EXCEPT !.op = src, !.inst = w,
                      !.outcome = made.outcome, !.built = TRUE,
                      !.src = src, !.seed = seed, !.ds = made.ds]
        /\ sameSeed' = (ret.built /\ ret.inst = w /\ ret.src = src
                        /\ ret.seed = seed)
        /\ UNCHANGED <<train_df, val_df, test_df, win>>

Train(w) == \E seed \in Seeds : Access(w, "train", seed)

Val(w) == \E seed \in Seeds : Access(w, "val", seed)

Test(w) == \E seed \in Seeds : Access(w, "test", seed)

SampleBatch(w) ==
    \E seed \in SeedsDrawn(win[w]) :
      \E got \in {SampleBatchGet(win[w], seed)} :
        /\ win' = [win EXCEPT ![w] = got.self]
        /\ ret' = [NoRet EXCEPT !.op = "sample_batch", !.inst = w,
                      !.outcome = got.outcome, !.built = got.built,
                      !.src = IF got.built THEN "train" ELSE "",
                      !.seed = IF got.built THEN seed ELSE 0 - 1,
                      !.ds = got.ds, !.batch = got.result]
        /\ sameSeed' = (got.built /\ ret.built /\ ret.inst = w
                        /\ ret.src = "train" /\ ret.seed = seed)
        /\ UNCHANGED <<train_df, val_df, test_df>>

Plot(w) ==
    \E seed \in SeedsDrawn(win[w]), model \in Models, plot_col \in PlotColumns :
      \E got \in {SampleBatchGet(win[w], seed)} :
        \E drawn \in {IF got.outcome = "ok"
                      THEN PlotFigure(got.self, got.result, model, plot_col)
                      ELSE [outcome |-> got.outcome, figure |-> <<>>]} :
            /\ win' = [win EXCEPT ![w] = got.self]
            /\ ret' = [NoRet EXCEPT !.op = "plot", !.inst = w,
                          !.outcome = drawn.outcome,
                          !.built = got.built,
                          !.src = IF got.built THEN "train" ELSE "",
                          !.seed = IF got.built THEN seed ELSE 0 - 1,
                          !.ds = got.ds, !.batch = got.result,
                          !.model = model, !.plot_col = plot_col,
                          !.figure = drawn.figure]
            /\ sameSeed' = (got.built /\ ret.built /\ ret.inst = w
                            /\ ret.src = "train" /\ ret.seed = seed)
            /\ UNCHANGED <<train_df, val_df, test_df>>

\* split_to_inputs_labels on the rows offset .. offset+total_window_size-1
\* of the training table, stacked as a batch of one window.
Split(w) ==
    \E offset \in 0..Min(Len(train_df), MaxLen) :
        /\ offset + win[w].total_window_size <= Len(train_df)
        /\ \E features \in {<<GatherSequence(Float32Array(train_df), offset,
                                             win[w].total_window_size)>>} :
             \E got \in {SplitToInputsLabels(win[w], features, TRUE)} :
                ret' = [NoRet EXCEPT !.op = "split", !.inst = w,
                           !.outcome = got.outcome, !.offset = offset,
                           !.batch = IF got.outcome = "ok" THEN SomeBatch(got)
                                     ELSE NoBatch]
        /\ sameSeed' = FALSE
        /\ UNCHANGED <<train_df, val_df, test_df, win>>

\* A Baseline applied to the inputs of the batch the last operation returned.
Call ==
    \E label_index \in LabelIndexChoices :
        /\ ret.op \in {"split", "sample_batch"}
        /\ ret.outcome = "ok"
        /\ \E out \in {BaselineCall(label_index, ret.batch.inputs, Len(Columns))} :
             ret' = [ret EXCEPT !.op = "call", !.outcome = out.outcome,
                        !.built = FALSE,
                        !.model = Baseline(label_index),
                        !.pred = [set |-> out.outcome = "ok", value |-> out.value]]
        /\ sameSeed' = FALSE
        /\ UNCHANGED <<train_df, val_df, test_df, win>>

\* A MultiStepLastBaseline applied to the inputs of the batch the last
\* operation returned.
CallMultiStepLast ==
    \E label_index \in MultiIndexChoices :
        /\ ret.op \in {"split", "sample_batch"}
        /\ ret.outcome = "ok"
        /\ \E out \in {MultiStepLastBaselineCall(label_index, ret.batch.inputs)} :
             ret' = [ret EXCEPT !.op = "call_last", !.outcome = out.outcome,
                        !.built = FALSE,
                        !.model = MultiStepLastBaseline(label_index),
                        !.pred = [set |-> out.outcome = "ok", value |-> out.value]]
        /\ sameSeed' = FALSE
        /\ UNCHANGED <<train_df, val_df, test_df, win>>

\* A RepeatBaseline applied to the inputs of the batch the last operation
\* returned.
CallRepeat ==
    \E label_index \in MultiIndexChoices :
        /\ ret.op \in {"split", "sample_batch"}
        /\ ret.outcome = "ok"
        /\ \E out \in {RepeatBaselineCall(label_index, ret.batch.inputs)} :
             ret' = [ret EXCEPT !.op = "call_repeat", !.outcome = out.outcome,
                        !.built = FALSE,
                        !.model = RepeatBaseline(label_index),
                        !.pred = [set |-> out.outcome = "ok", value |-> out.value]]
        /\ sameSeed' = FALSE
        /\ UNCHANGED <<train_df, val_df, test_df, win>>

Next ==
    \/ \E w \in DOMAIN win : Train(w)
    \/ \E w \in DOMAIN win : Val(w)
    \/ \E w \in DOMAIN win : Test(w)
    \/ \E w \in DOMAIN win : SampleBatch(w)
    \/ \E w \in DOMAIN win : Plot(w)
    \/ \E w \in DOMAIN win : Split(w)
    \/ Call
    \/ CallMultiStepLast
    \/ CallRepeat

Spec == Init /\ [][Next]_vars

(***************************************************************************)
(* The same operations on a training table long enough for several         *)
(* batches, with window specs whose three widths are positive.             *)
(***************************************************************************)
InitBatch ==
    /\ train_df = Table(0, WideLen)
    /\ val_df = Table(1000, ValLen)
    /\ test_df = Table(2000, TestLen)
    /\ \E input_width \in 1..MaxInput, shift \in 0..1,
          label_columns \in {None, Some(<<"traffic_volume">>)} :
          win = [w \in {"w"} |-> DataWindow(input_width, 1, shift, label_columns)]
    /\ ret = NoRet
    /\ sameSeed = FALSE

SpecBatch == InitBatch /\ [][Next]_vars

(***************************************************************************)
(* The same operations on two instances: a window of equal input and label *)
(* width and shift 1 (as wide_window), and the notebook's                  *)
(* single_step_window.                                                     *)
(***************************************************************************)
InitCache ==
    /\ \E n \in 2..MaxLen : train_df = Table(0, n)
    /\ val_df = Table(1000, ValLen)
    /\ test_df = Table(2000, TestLen)
    /\ \E width \in 1..MaxInput,
          label_columns \in {None, Some(<<"traffic_volume">>)} :
          win = [w \in {"wide_window", "single_step_window"} |->
                    IF w = "wide_window"
                    THEN DataWindow(width, width, 1, label_columns)
                    ELSE DataWindow(1, 1, 1, Some(<<"traffic_volume">>))]
    /\ ret = NoRet
    /\ sameSeed = FALSE

SpecCache == InitCache /\ [][Next]_vars

(***************************************************************************)
(* The same operations on windows of the multi-step widths: each of the    *)
(* three widths is 1 or the 24 of multi_window, over a training table that *)
(* holds a few windows of the widest spec.                                 *)
(***************************************************************************)
InitMulti ==
    /\ train_df = Table(0, MultiLen)
    /\ val_df = Table(1000, ValLen)
    /\ test_df = Table(2000, TestLen)
    /\ \E input_width \in {1, Horizon}, label_width \in {1, Horizon},
          shift \in {1, Horizon},
          label_columns \in {None, Some(<<"traffic_volume">>)} :
          win = [w \in {"multi_window"} |->
                    DataWindow(input_width, label_width, shift, label_columns)]
    /\ ret = NoRet
    /\ sameSeed = FALSE

SpecMulti == InitMulti /\ [][Next]_vars

(***************************************************************************)
(* Properties.  What a property expects is written from the tables         *)
(* directly, not with the operators above.                                 *)
(***************************************************************************)
\* The three widths are positive and the labels fit in the window.
ValidSpec(self) ==
    /\ self.input_width >= 1
    /\ self.label_width >= 1
    /\ self.shift >= 1
    /\ self.label_width <= self.input_width + self.shift

\* Every label column names a column of the table.
KnownColumns(self) ==
    \A k \in 1..Len(self.label_columns.names) :
        \E p \in 1..Len(Columns) : Columns[p] = self.label_columns.names[k]

\* The place (1-based) of a column name in the table.
ColumnPosition(name) == CHOOSE p \in 1..Len(Columns) : Columns[p] = name

\* A table row as a label row: the listed columns in the listed order, or
\* every column.
ExpectedLabelRow(self, row) ==
    IF self.label_columns.set
    THEN [k \in 1..Len(self.label_columns.names) |->
            row[ColumnPosition(self.label_columns.names[k])]]
    ELSE row

\* inputs and labels are the rows of one window of data at offset: row k of
\* the inputs is table row offset + k, and the label rows are consecutive
\* table rows of the same window, starting label_start rows into it when
\* the spec is valid.
WindowFrom(self, data, offset, inputs, labels) ==
    LET total == self.input_width + self.shift
    IN  /\ offset + total <= Len(data)
        /\ inputs = [k \in 1..Len(inputs) |-> data[offset + k]]
        /\ Len(inputs) <= total
        /\ \E first \in 0..total :
            /\ first + Len(labels) <= total
            /\ labels = [j \in 1..Len(labels) |->
                            ExpectedLabelRow(self, data[offset + first + j])]
            /\ ValidSpec(self) => first = total - self.label_width
        /\ ValidSpec(self) =>
            Len(inputs) = self.input_width /\ Len(labels) = self.label_width

\* Every window of a batch is a window of data.
BatchFrom(self, data, batch) ==
    /\ Len(batch.inputs) = Len(batch.labels)
    /\ \A n \in 1..Len(batch.inputs) :
        \E offset \in 0..Len(data) :
            WindowFrom(self, data, offset, batch.inputs[n], batch.labels[n])

\* The last operation built a dataset (and mapped it without error).
BuiltDataset == ret.built /\ ret.outcome \in {"ok", "StopIteration"}

\* C1: total_window_size is input_width + shift and label_start is
\* total_window_size - label_width in every instance, and no operation
\* (train, val, test, sample_batch, plot, split_to_inputs_labels) changes
\* them or the three widths they are computed from.
C1_WindowArithmetic ==
    /\ [](\A w \in DOMAIN win :
            /\ win[w].total_window_size = win[w].input_width + win[w].shift
            /\ win[w].label_start =
                   win[w].total_window_size - win[w].label_width)
    /\ [][\A w \in DOMAIN win :
            /\ win'[w].total_window_size = win[w].total_window_size
            /\ win'[w].label_start = win[w].label_start
            /\ win'[w].input_width = win[w].input_width
            /\ win'[w].label_width = win[w].label_width
            /\ win'[w].shift = win[w].shift]_vars

\* C1 witness: a plot has filled the sample-batch cache of an instance of
\* positive widths, after which the arithmetic still holds.
C1_Witness ==
    /\ ret.op = "plot"
    /\ ret.outcome = "ok"
    /\ win[ret.inst]._sample_batch.set
    /\ ValidSpec(win[ret.inst])
    /\ win[ret.inst].total_window_size = 3
    /\ win[ret.inst].label_start = 2

\* C2: split_to_inputs_labels on total_window_size rows succeeds for every
\* valid spec with known label columns; its inputs are the rows
\* 0..input_width-1 of the span, in order and with every column, and its
\* label_width label rows are taken, in order, from the rows
\* total_window_size-label_width..total_window_size-1.
C2_SplitRows ==
    ret.op = "split" =>
        LET self == win[ret.inst]
            total == self.input_width + self.shift
            first == ret.offset + total - self.label_width
            inputs == ret.batch.inputs
            labels == ret.batch.labels
        IN  /\ (ValidSpec(self) /\ KnownColumns(self)) => ret.outcome = "ok"
            /\ ret.outcome = "ok" =>
                /\ Len(inputs) = 1
                /\ Len(labels) = 1
                /\ inputs[1] = [k \in 1..self.input_width |->
                                    train_df[ret.offset + k]]
                /\ Len(labels[1]) = self.label_width
                /\ \A j \in 1..self.label_width :
                    /\ labels[1][j] # <<>>
                    /\ Range(labels[1][j]) \subseteq Range(train_df[first + j])

\* C2 witness: the spec's example scaled down (input_width = label_width =
\* shift), split at a later offset of the table: inputs are the first half
\* of the span and labels the second half.
C2_Witness ==
    /\ ret.op = "split"
    /\ ret.outcome = "ok"
    /\ ret.offset >= 1
    /\ win[ret.inst].input_width >= 1
    /\ win[ret.inst].input_width = win[ret.inst].label_width
    /\ win[ret.inst].input_width = win[ret.inst].shift
    /\ ~win[ret.inst].label_columns.set
    /\ ret.batch.labels[1][1] = train_df[ret.offset + win[ret.inst].input_width + 1]

\* C3: with label_columns set, every label row has one column per listed
\* name, in the listed order, each the table column of that name; with
\* label_columns unset, label rows keep all columns in table order; input
\* rows keep all columns either way.
C3_LabelColumns ==
    (ret.op = "split" /\ ret.outcome = "ok") =>
        LET self == win[ret.inst]
            names == self.label_columns.names
            first == ret.offset + self.input_width + self.shift - self.label_width
            inputs == ret.batch.inputs[1]
            labels == ret.batch.labels[1]
        IN  /\ \A r \in 1..Len(inputs) :
                /\ Len(inputs[r]) = Len(Columns)
                /\ \A c \in 1..Len(Columns) :
                    inputs[r][c] = train_df[ret.offset + r][c]
            /\ \A j \in 1..Len(labels) :
                IF self.label_columns.set
                THEN /\ Len(labels[j]) = Len(names)
                     /\ \A k \in 1..Len(names) :
                         labels[j][k] =
                             train_df[first + j][ColumnPosition(names[k])]
                ELSE /\ Len(labels[j]) = Len(Columns)
                     /\ \A c \in 1..Len(Columns) :
                         labels[j][c] = train_df[first + j][c]

\* C3 witness: labels restricted to two columns listed in the reverse of
\* their table order.
C3_Witness ==
    /\ ret.op = "split"
    /\ ret.outcome = "ok"
    /\ win[ret.inst].label_columns = Some(<<"traffic_volume", "temp">>)
    /\ win[ret.inst].label_width >= 1
    /\ ret.batch.labels[1][1][1] = train_df[ret.offset + win[ret.inst].label_start + 1][3]
    /\ ret.batch.labels[1][1][2] = train_df[ret.offset + win[ret.inst].label_start + 1][1]

\* C4 (the claim as stated): an access of train, val or test on a valid
\* spec yields max(0, L - T + 1) windows, and fails with
\* InsufficientDataError when that count is zero.
C4_WindowCountOrError ==
    (/\ ret.op \in {"train", "val", "test"}
     /\ ValidSpec(win[ret.inst])
     /\ KnownColumns(win[ret.inst])) =>
        LET data == TableOf(ret.src)
            count == Len(data) - win[ret.inst].total_window_size + 1
            produced == {<<b, n>> \in (DOMAIN ret.ds) \X (1..BatchSize) :
                            n <= Len(ret.ds[b].inputs)}
        IN  IF count <= 0 THEN ret.outcome = "InsufficientDataError"
            ELSE ret.outcome = "ok" /\ Cardinality(produced) = count

\* C5: every window of every batch of a dataset, and of every cached sample
\* batch, is a contiguous slice of its table: rows in table order from a
\* single offset, inputs and labels alike, whatever the shuffle.
C5_WindowsContiguous ==
    /\ BuiltDataset =>
        \A b \in DOMAIN ret.ds :
            BatchFrom(win[ret.inst], TableOf(ret.src), ret.ds[b])
    /\ \A w \in DOMAIN win :
        win[w]._sample_batch.set =>
            BatchFrom(win[w], train_df, win[w]._sample_batch)

\* C5 witness: a shuffled dataset of two-row windows whose first window is
\* not the one at offset 0.
C5_Witness ==
    /\ BuiltDataset
    /\ ret.ds # <<>>
    /\ Len(ret.ds[1].inputs) >= 2
    /\ win[ret.inst].input_width = 2
    /\ win[ret.inst].label_width >= 1
    /\ ret.ds[1].inputs[1][1] # TableOf(ret.src)[1]
    /\ ret.ds[1].inputs[1][2] # TableOf(ret.src)[2]

\* C6: a dataset of N = max(0, L - T + 1) windows is ceil(N / 32) batches,
\* all of 32 windows but the last, which holds the remaining 1..32, and the
\* window of every offset 0..N-1 is in exactly one place of one batch.
C6_BatchPartition ==
    (BuiltDataset /\ win[ret.inst].input_width >= 1) =>
        LET data == TableOf(ret.src)
            total == win[ret.inst].input_width + win[ret.inst].shift
            N == Max(0, Len(data) - total + 1)
            count == Len(ret.ds)
            places == {<<b, n>> \in (1..count) \X (1..BatchSize) :
                            n <= Len(ret.ds[b].inputs)}
        IN  /\ count * BatchSize >= N
            /\ (count - 1) * BatchSize < N
            /\ \A b \in 1..count :
                /\ Len(ret.ds[b].labels) = Len(ret.ds[b].inputs)
                /\ Len(ret.ds[b].inputs) =
                       IF b < count THEN BatchSize
                       ELSE N - (count - 1) * BatchSize
                /\ Len(ret.ds[b].inputs) \in 1..BatchSize
            /\ \A o \in 0..(N - 1) :
                Cardinality({p \in places :
                    ret.ds[p[1]].inputs[p[2]][1] = data[o + 1]}) = 1

\* C6 witness: a shuffled training dataset of two full batches and a short
\* last one.
C6_Witness ==
    /\ BuiltDataset
    /\ ret.src = "train"
    /\ ret.seed % 2 = 1
    /\ Len(ret.ds) = 3
    /\ Len(ret.ds[1].inputs) = BatchSize
    /\ Len(ret.ds[2].inputs) = BatchSize
    /\ Len(ret.ds[3].inputs) < BatchSize

\* C7: the sample-batch cache is absent at construction; a read of
\* sample_batch (by the property or by plot) that finds it absent and
\* returns fills it with the first batch of a new dataset of training
\* windows; a read that finds it filled returns it and builds nothing; once
\* filled it never changes; train, val, test, split and model calls leave
\* every cache alone; and a read on one instance neither returns nor
\* touches the cache of another.
C7_CacheStep ==
    LET w == ret'.inst
        before == win[w]._sample_batch
    IN  /\ \A v \in DOMAIN win :
            win[v]._sample_batch.set =>
                win'[v]._sample_batch = win[v]._sample_batch
        /\ ret'.op \notin {"sample_batch", "plot"} =>
            \A v \in DOMAIN win : win'[v]._sample_batch = win[v]._sample_batch
        /\ ret'.op \in {"sample_batch", "plot"} =>
            /\ \A v \in DOMAIN win \ {w} : win'[v] = win[v]
            /\ ret'.batch = win'[w]._sample_batch
            /\ before.set =>
                ~ret'.built /\ ret'.ds = <<>> /\ ret'.batch = before
            /\ (~before.set /\ ret'.batch.set) =>
                /\ ret'.built
                /\ ret'.ds # <<>>
                /\ ret'.batch = SomeBatch(Head(ret'.ds))
                /\ BatchFrom(win[w], train_df, ret'.batch)
            /\ (ret'.op = "sample_batch" /\ ret'.outcome = "ok") =>
                ret'.batch.set

C7_SampleBatchCache ==
    /\ \A w \in DOMAIN win : ~win[w]._sample_batch.set
    /\ [][C7_CacheStep]_vars

\* C7 witness: a plot has read a filled cache without building a dataset,
\* while another instance holds a different cached batch.
C7_Witness ==
    /\ ret.op = "plot"
    /\ ~ret.built
    /\ ret.batch.set
    /\ ret.batch = win[ret.inst]._sample_batch
    /\ \E v \in DOMAIN win \ {ret.inst} :
        /\ win[v]._sample_batch.set
        /\ win[v]._sample_batch # ret.batch

C9_OnlyValidSpecsConstructed ==
    \A w \in DOMAIN win : ValidSpec(win[w])

\* C10: Baseline.call returns its input when label_index is None; with an
\* index i, for every sample and row the single column i of the input; with
\* a list, one column per listed index in list order; samples and rows are
\* those of the input, in order.
C10_BaselineCall ==
    (ret.op = "call" /\ ret.outcome = "ok") =>
        LET inputs == ret.batch.inputs
            pred == ret.pred.value
            label_index == ret.model.label_index
        IN  /\ ret.pred.set
            /\ Len(pred) = Len(inputs)
            /\ \A n \in 1..Len(inputs) :
                /\ Len(pred[n]) = Len(inputs[n])
                /\ \A r \in 1..Len(inputs[n]) :
                    pred[n][r] =
                        CASE label_index.kind = "None" -> inputs[n][r]
                          [] label_index.kind = "int" ->
                                <<inputs[n][r][label_index.index + 1]>>
                          [] OTHER ->
                                [k \in 1..Len(label_index.list) |->
                                    inputs[n][r][label_index.list[k] + 1]]

\* C10 witness: Baseline(label_index=[2, 0]) was applied to a sample batch
\* of several windows.
C10_Witness ==
    /\ ret.op = "call"
    /\ ret.outcome = "ok"
    /\ ret.model.label_index.kind = "list"
    /\ Len(ret.batch.inputs) >= 2
    /\ Len(ret.batch.inputs[1]) >= 1
    /\ ret.pred.value[2][1] =
           <<ret.batch.inputs[2][1][3], ret.batch.inputs[2][1][1]>>

\* C11: MultiStepLastBaseline with label_index None, on inputs of N samples
\* of R >= 1 rows, returns N samples of 24 rows, each equal to the last
\* input row of its sample with all its columns; for R = 24 the output has
\* the shape of the input.
C11_RepeatLastNoIndex ==
    (/\ ret.op = "call_last"
     /\ ret.model.label_index.kind = "None"
     /\ \A n \in 1..Len(ret.batch.inputs) : Len(ret.batch.inputs[n]) >= 1) =>
        LET inputs == ret.batch.inputs
            pred == ret.pred.value
        IN  /\ ret.outcome = "ok"
            /\ Len(pred) = Len(inputs)
            /\ \A n \in 1..Len(inputs) :
                /\ Len(pred[n]) = Horizon
                /\ \A r \in 1..Horizon :
                    pred[n][r] = inputs[n][Len(inputs[n])]
                /\ Len(inputs[n]) = Horizon =>
                    /\ Len(pred[n]) = Len(inputs[n])
                    /\ \A r \in 1..Horizon :
                        Len(pred[n][r]) = Len(inputs[n][r])

\* C11 witness: the baseline was applied to a sample batch of several
\* windows of 24 input rows, whose last row differs from the first.
C11_Witness ==
    /\ ret.op = "call_last"
    /\ ret.model.label_index.kind = "None"
    /\ Len(ret.batch.inputs) >= 2
    /\ Len(ret.batch.inputs[2]) = Horizon
    /\ ret.batch.inputs[2][Horizon] # ret.batch.inputs[2][1]
    /\ ret.pred.value[2][1] = ret.batch.inputs[2][Horizon]
    /\ ret.pred.value[2][Horizon] = ret.batch.inputs[2][Horizon]

\* C12 (the claim as stated): MultiStepLastBaseline with a column index i
\* returns, for every sample, 24 rows of exactly one column, the column i
\* of the last input row.
C12_RepeatLastOneColumn ==
    (/\ ret.op = "call_last"
     /\ ret.model.label_index.kind = "int"
     /\ \A n \in 1..Len(ret.batch.inputs) : Len(ret.batch.inputs[n]) >= 1) =>
        LET inputs == ret.batch.inputs
            pred == ret.pred.value
            i == ret.model.label_index.index
        IN  /\ ret.outcome = "ok"
            /\ Len(pred) = Len(inputs)
            /\ \A n \in 1..Len(inputs) :
                /\ Len(pred[n]) = Horizon
                /\ \A r \in 1..Horizon :
                    pred[n][r] = <<inputs[n][Len(inputs[n])][i + 1]>>

\* C13 (the claim as stated): RepeatBaseline returns all rows of the inputs
\* in order; with a column index i each row is exactly the column i of the
\* input row, and with no index each row is the input row.
C13_RepeatSequenceOneColumn ==
    ret.op = "call_repeat" =>
        LET inputs == ret.batch.inputs
            pred == ret.pred.value
            label_index == ret.model.label_index
        IN  /\ ret.outcome = "ok"
            /\ Len(pred) = Len(inputs)
            /\ \A n \in 1..Len(inputs) :
                /\ Len(pred[n]) = Len(inputs[n])
                /\ \A r \in 1..Len(inputs[n]) :
                    pred[n][r] =
                        IF label_index.kind = "None" THEN inputs[n][r]
                        ELSE <<inputs[n][r][label_index.index + 1]>>

\* C14 (the claim as stated, KeyError being the code's unknown-column
\* error): an operation that needs a label column absent from the table
\* (train, val, test, split_to_inputs_labels, sample_batch, plot), and a
\* plot of an absent plot_col, end in that error, with no labels and no
\* figure built; and an operation that ends in it leaves the instance, its
\* sample-batch cache included, as it was.
C14_Detected ==
    LET self == win[ret'.inst]
    IN  /\ (/\ ret'.op \in {"train", "val", "test", "split", "sample_batch", "plot"}
            /\ ~KnownColumns(self)) =>
                /\ ret'.outcome = "KeyError"
                /\ ret'.ds = <<>>
                /\ ~ret'.batch.set
                /\ ret'.figure = <<>>
        /\ (/\ ret'.op = "plot"
            /\ ret'.plot_col \notin Range(Columns)
            /\ ret'.batch.set) =>
                /\ ret'.outcome = "KeyError"
                /\ ret'.figure = <<>>

C14_InstanceUntouched ==
    (ret'.outcome = "KeyError" /\ ValidSpec(win[ret'.inst])) => win' = win

C14_UnknownColumnError ==
    [][C14_Detected /\ C14_InstanceUntouched]_vars

\* The number of input rows of a window that are also label rows of it
\* (a label row holds the label columns of its table row).
SharedRows(self, inputs, labels) ==
    Cardinality({r \in 1..Len(inputs) :
        \E j \in 1..Len(labels) : labels[j] = ExpectedLabelRow(self, inputs[r])})

\* In a window, input row first + j and label row j are the same table row
\* for the label_width - shift rows j that inputs and labels share, and no
\* other row is shared.
OverlapFrom(self, first, inputs, labels) ==
    /\ \A j \in 0..(self.label_width - self.shift - 1) :
        /\ first + j + 1 <= Len(inputs)
        /\ j + 1 <= Len(labels)
        /\ labels[j + 1] = ExpectedLabelRow(self, inputs[first + j + 1])
    /\ SharedRows(self, inputs, labels) = Max(0, self.label_width - self.shift)

\* OverlapFrom for the window split_to_inputs_labels returned (whose rows
\* are those of the training table from ret.offset) and for every window
\* of a dataset built, of specs with known label columns, positive widths
\* and label_width <= input_width + shift.
OverlapEverywhere(first) ==
    /\ (/\ ret.op = "split"
        /\ ValidSpec(win[ret.inst])
        /\ KnownColumns(win[ret.inst])) =>
            /\ ret.outcome = "ok"
            /\ \A r \in 1..win[ret.inst].input_width :
                ret.batch.inputs[1][r] = train_df[ret.offset + r]
            /\ OverlapFrom(win[ret.inst], first,
                           ret.batch.inputs[1], ret.batch.labels[1])
    /\ (/\ BuiltDataset
        /\ ValidSpec(win[ret.inst])
        /\ KnownColumns(win[ret.inst])) =>
            \A b \in DOMAIN ret.ds :
                \A n \in 1..Len(ret.ds[b].inputs) :
                    OverlapFrom(win[ret.inst], first,
                                ret.ds[b].inputs[n], ret.ds[b].labels[n])

\* C15 (the claim as stated): a spec with shift < label_width <=
\* input_width + shift is accepted, and in every window input row shift + j
\* and label row j are the same table row (offset + shift + j) for j in
\* 0..label_width-shift-1; with shift >= label_width no row is shared.
C15_OverlapAtShift == OverlapEverywhere(win[ret.inst].shift)

\* C15 (amended): as stated, but the shared rows are input row
\* label_start + j and label row j, both table row offset + label_start + j,
\* where label_start = input_width + shift - label_width (which is shift
\* when input_width = label_width).
C15_OverlapAtLabelStart ==
    OverlapEverywhere(win[ret.inst].input_width + win[ret.inst].shift
                        - win[ret.inst].label_width)

\* C15 witness: wide_window scaled down (input_width = label_width = 2,
\* shift = 1) was split: the last input row is the first label row.
C15_Witness ==
    /\ ret.op = "split"
    /\ ret.outcome = "ok"
    /\ win[ret.inst].input_width = 2
    /\ win[ret.inst].label_width = 2
    /\ win[ret.inst].shift = 1
    /\ ~win[ret.inst].label_columns.set
    /\ ret.batch.inputs[1][2] = ret.batch.labels[1][1]
    /\ ret.batch.labels[1][1] = train_df[ret.offset + 2]
    /\ ret.batch.inputs[1][1] # ret.batch.labels[1][2]

\* C16: for a spec with shift = 1, label_width = input_width = w and one
\* label column c, Baseline(label_index = table index of c) applied to the
\* inputs of a window at offset o predicts, for every label position k in
\* 0..w-1, the value of c one step before the label: prediction row k is
\* table[o+k][c] and label row k is table[o+k+1][c].
C16_LastKnownValue ==
    LET self == win[ret.inst]
        names == self.label_columns.names
    IN  (/\ ret.op = "call"
         /\ self.shift = 1
         /\ self.input_width >= 1
         /\ self.label_width = self.input_width
         /\ self.label_columns.set
         /\ Len(names) = 1
         /\ KnownColumns(self)
         /\ ret.model.label_index = IntIndex(ColumnPosition(names[1]) - 1)) =>
            LET c == ColumnPosition(names[1])
                w == self.input_width
                pred == ret.pred.value
                labels == ret.batch.labels
                offsets == IF ret.offset >= 0 THEN {ret.offset}
                           ELSE 0..Len(train_df)
            IN  /\ ret.outcome = "ok"
                /\ Len(pred) = Len(labels)
                /\ \A n \in 1..Len(labels) :
                    /\ Len(pred[n]) = w
                    /\ Len(labels[n]) = w
                    /\ \E o \in offsets :
                        /\ o + w + 1 <= Len(train_df)
                        /\ \A k \in 0..(w - 1) :
                            /\ pred[n][k + 1] = <<train_df[o + k + 1][c]>>
                            /\ labels[n][k + 1] = <<train_df[o + k + 2][c]>>

\* C16 witness: baseline_last applied to the inputs of a window of
\* wide_window scaled down (w = 2, label column traffic_volume).
C16_Witness ==
    /\ ret.op = "call"
    /\ ret.outcome = "ok"
    /\ ret.offset >= 0
    /\ win[ret.inst].shift = 1
    /\ win[ret.inst].input_width = 2
    /\ win[ret.inst].label_width = 2
    /\ win[ret.inst].label_columns = Some(<<"traffic_volume">>)
    /\ ret.model.label_index = IntIndex(2)
    /\ ret.pred.value[1] = <<<<train_df[ret.offset + 1][3]>>,
                             <<train_df[ret.offset + 2][3]>>>>
    /\ ret.batch.labels[1] = <<<<train_df[ret.offset + 2][3]>>,
                               <<train_df[ret.offset + 3][3]>>>>

\* C17 (the claim as stated): for every DataWindow constructed and every
\* window of total_window_size rows, the sliced inputs have input_width rows
\* and the sliced labels have label_width rows, so the shape set on them is
\* their shape: split_to_inputs_labels succeeds on a concrete window, and
\* every window of every dataset has those row counts.
C17_ShapesHold ==
    /\ (ret.op = "split" /\ KnownColumns(win[ret.inst])) =>
        /\ ret.outcome = "ok"
        /\ Len(ret.batch.inputs[1]) = win[ret.inst].input_width
        /\ Len(ret.batch.labels[1]) = win[ret.inst].label_width
    /\ (BuiltDataset /\ KnownColumns(win[ret.inst])) =>
        \A b \in DOMAIN ret.ds :
            \A n \in 1..Len(ret.ds[b].inputs) :
                /\ Len(ret.ds[b].inputs[n]) = win[ret.inst].input_width
                /\ Len(ret.ds[b].labels[n]) = win[ret.inst].label_width

====
